---- MODULE Spec2Model ----
(***************************************************************************)
(* Model of the arithmetic practice game: the App component's state and    *)
(* handlers (src/App.tsx), the GameArena submit/feedback timer             *)
(* (src/components/GameArena.tsx), the question generator and the          *)
(* spaced-repetition scheduler (src/services/mathEngine.ts) and the boss   *)
(* question collaborator (src/services/geminiService.ts).                  *)
(*                                                                         *)
(* Time is counted in milliseconds from the moment the app is opened       *)
(* (Date.now() minus a fixed origin); Math.random() is k / RandDen.        *)
(* Presentation-only state (encouragement text, selectedOperators, audio)  *)
(* is not part of the model: no handler modelled here reads it.            *)
(***************************************************************************)
EXTENDS Integers, Sequences, FiniteSets, TLC

\* ------------------------------------------------------------------ bounds
\* Math.random() takes the values 0/RandDen .. (RandDen-1)/RandDen.
RandDen == 4
\* Answer events applied to stats (cap on stats.totalQuestions).
MaxAnswers == 2
\* Sessions (question batches) created since the app was opened.
MaxSessions == 2
\* Minutes the clock may advance.
MaxMinutes == 1
\* Answer events the reducer is driven with (ReducerSpec).
MaxEvents == 6
\* Length of the streak of correct answers some runs of ReducerSpec start after.
WarmUp == 8

\* Stages finished before the session that the runs of StageEndSpec end.
MaxCleared == 1
\* Fields a saved snapshot may lack.
MaxMissing == 2
\* Values Math.random() takes in the runs of DivisionSpec: 0/FineSteps ..
\* (FineSteps-1)/FineSteps.
FineSteps == 10
\* Boss questions answered in a row in the runs of LevelSpec.
MaxBossRun == 1432

\* --------------------------------------------------------------- constants
ADD == "+"
SUBTRACT == "-"
MULTIPLY == "*"
DIVIDE == "/"
Operators == <<ADD, SUBTRACT, MULTIPLY, DIVIDE>>

OneMinute == 60 * 1000
OneDay == 24 * 60 * 60 * 1000

Null == [null |-> TRUE]

Min(a, b) == IF a < b THEN a ELSE b
Max(a, b) == IF a > b THEN a ELSE b

\* Math.floor(Math.random() * (num / den)) for Math.random() = k / steps.
RandomFloorAt(steps, k, num, den) == (k * num) \div (steps * den)
\* Math.floor(Math.random() * (num / den)) for Math.random() = k / RandDen.
RandomFloor(k, num, den) == RandomFloorAt(RandDen, k, num, den)

\* LEVEL_Thresholds[i] = i === 0 ? 0 : Math.floor(100 * Math.pow(i, 1.5)),
\* i = 0..100, written out (index i is element i + 1).
LevelTable ==
  << 0, 100, 282, 519, 800, 1118, 1469, 1852, 2262, 2700, 3162, 3648, 4156,
     4687, 5238, 5809, 6400, 7009, 7636, 8281, 8944, 9623, 10318, 11030,
     11757, 12500, 13257, 14029, 14816, 15616, 16431, 17260, 18101, 18957,
     19825, 20706, 21600, 22506, 23424, 24355, 25298, 26252, 27219, 28196,
     29186, 30186, 31198, 32221, 33255, 34300, 35355, 36421, 37497, 38584,
     39681, 40789, 41906, 43034, 44171, 45318, 46475, 47642, 48818, 50004,
     51200, 52404, 53618, 54841, 56074, 57315, 58566, 59825, 61094, 62371,
     63657, 64951, 66255, 67567, 68887, 70216, 71554, 72900, 74254, 75616,
     76987, 78366, 79753, 81148, 82551, 83962, 85381, 86808, 88243, 89685,
     91136, 92594, 94060, 95533, 97015, 98503, 100000 >>

\* LEVEL_Thresholds[level]; 0 stands for both the entry 0 and undefined (an
\* index past the table): the code only tests the entry for truthiness.
LEVEL_Thresholds(level) ==
  IF level >= 0 /\ level < Len(LevelTable) THEN LevelTable[level + 1] ELSE 0

\* -------------------------------------------------- spaced repetition (SRS)
\* const intervals = [5 min, 30 min, 4 h, 24 h, 3 d]
intervals ==
  << 5 * 60 * 1000, 30 * 60 * 1000, 4 * 60 * 60 * 1000,
     24 * 60 * 60 * 1000, 3 * 24 * 60 * 60 * 1000 >>

\* Variants of calculateNextReview with one slip each: mastery one answer early;
\* a miss lowers the proficiency by one instead of resetting it; the ladder
\* indexed by the new proficiency itself.
calculateNextReview_Early(record, isCorrect, now) ==
  LET newProf == record.proficiency + 1
  IN  IF ~isCorrect
      THEN [record EXCEPT !.reviewCount = record.reviewCount + 1, !.proficiency = 0,
                          !.nextReviewTime = now + 60 * 1000, !.timestamp = now]
      ELSE IF newProf >= 4
      THEN Null
      ELSE [record EXCEPT !.reviewCount = record.reviewCount + 1,
                          !.proficiency = newProf,
                          !.nextReviewTime = now + intervals[Min(newProf - 1, 4) + 1],
                          !.timestamp = now]
calculateNextReview_Decay(record, isCorrect, now) ==
  LET newProf == record.proficiency + 1
  IN  IF ~isCorrect
      THEN [record EXCEPT !.reviewCount = record.reviewCount + 1,
                          !.proficiency = Max(0, record.proficiency - 1),
                          !.nextReviewTime = now + 60 * 1000, !.timestamp = now]
      ELSE IF newProf >= 5
      THEN Null
      ELSE [record EXCEPT !.reviewCount = record.reviewCount + 1,
                          !.proficiency = newProf,
                          !.nextReviewTime = now + intervals[Min(newProf - 1, 4) + 1],
                          !.timestamp = now]
calculateNextReview_Shifted(record, isCorrect, now) ==
  LET newProf == record.proficiency + 1
  IN  IF ~isCorrect
      THEN [record EXCEPT !.reviewCount = record.reviewCount + 1, !.proficiency = 0,
                          !.nextReviewTime = now + 60 * 1000, !.timestamp = now]
      ELSE IF newProf >= 5
      THEN Null
      ELSE [record EXCEPT !.reviewCount = record.reviewCount + 1,
                          !.proficiency = newProf,
                          !.nextReviewTime = now + intervals[Min(newProf, 4) + 1],
                          !.timestamp = now]

\* calculateNextReview(record, isCorrect) at Date.now() = now; Null for `null`.
calculateNextReview(record, isCorrect, now) ==
  LET currentProf == record.proficiency
      newProf == currentProf + 1
  IN  IF ~isCorrect
      THEN [record EXCEPT !.reviewCount = record.reviewCount + 1,
                          !.proficiency = 0,
                          !.nextReviewTime = now + 60 * 1000,
                          !.timestamp = now]
      ELSE IF newProf >= 5
      THEN Null
      ELSE [record EXCEPT !.reviewCount = record.reviewCount + 1,
                          !.proficiency = newProf,
                          !.nextReviewTime =
                             now + intervals[Min(newProf - 1, Len(intervals) - 1) + 1],
                          !.timestamp = now]

\* ------------------------------------------------------- stage configuration
\* getStageConfig(stage): {min, max, operators}; the description is text only.
getStageConfig(stage) ==
  IF stage <= 10 THEN [min |-> 10, max |-> 200, operators |-> Operators]
  ELSE IF stage <= 30 THEN [min |-> 50, max |-> 500, operators |-> Operators]
  ELSE IF stage <= 60 THEN [min |-> 100, max |-> 800, operators |-> Operators]
  ELSE [min |-> 200, max |-> 1000, operators |-> Operators]

\* ------------------------------------------------------- question generator
\* A variant that leaves the due records in the order of the list.
SortByNextReviewTime_None(s) == s

\* dueMistakes.sort((a, b) => a.nextReviewTime - b.nextReviewTime): a stable
\* sort, written as the rank of every element.
SortByNextReviewTime(s) ==
  LET Before(j, i) ==
        \/ s[j].nextReviewTime < s[i].nextReviewTime
        \/ (s[j].nextReviewTime = s[i].nextReviewTime /\ j < i)
      Rank(i) == Cardinality({j \in 1..Len(s) : Before(j, i)}) + 1
  IN  [r \in 1..Len(s) |-> s[CHOOSE i \in 1..Len(s) : Rank(i) = r]]

\* The values one call of generateQuestion draws from Math.random(), in the
\* order of the calls: review (< 0.3 ?), pick (which of the top candidates),
\* op (which operator), a and b (the operands).
DrawTuples == [review : 0..(RandDen - 1), pick : 0..(RandDen - 1),
               op : 0..(RandDen - 1), a : 0..(RandDen - 1), b : 0..(RandDen - 1)]

\* A variant whose subtrahend is drawn from the whole range of the stage.
NewQuestion_FreeSubtrahend(config, d, id) ==
  LET validOperators == IF Len(config.operators) > 0 THEN config.operators ELSE <<ADD>>
      operator == validOperators[RandomFloor(d.op, Len(validOperators), 1) + 1]
      addNum1 == RandomFloor(d.a, 7 * config.max - 10 * config.min, 10) + config.min
      addNum2 == RandomFloor(d.b, config.max - addNum1 - 10, 1) + 10
      subNum1 == RandomFloor(d.a, config.max - config.min, 1) + config.min
      subNum2 == RandomFloor(d.b, config.max - 5, 1) + 5
      mulNum1 == IF config.max < 300 THEN RandomFloor(d.a, 50, 1) + 11
                                     ELSE RandomFloor(d.a, 80, 1) + 12
      mulNum2 == IF config.max < 300 THEN RandomFloor(d.b, 8, 1) + 2
                                     ELSE RandomFloor(d.b, 11, 1) + 3
      divisor == RandomFloor(d.a, 8, 1) + 2
      quotient == RandomFloor(d.b, config.max, 10) + 11
      base == [id |-> id, operator |-> operator, isReview |-> FALSE,
               isBoss |-> FALSE, bossText |-> ""]
  IN  CASE operator = ADD ->
             base @@ [num1 |-> addNum1, num2 |-> addNum2, answer |-> addNum1 + addNum2]
        [] operator = SUBTRACT ->
             base @@ [num1 |-> subNum1, num2 |-> subNum2, answer |-> subNum1 - subNum2]
        [] operator = MULTIPLY ->
             base @@ [num1 |-> mulNum1, num2 |-> mulNum2, answer |-> mulNum1 * mulNum2]
        [] operator = DIVIDE ->
             base @@ [num1 |-> quotient * divisor, num2 |-> divisor, answer |-> quotient]

\* The freshly synthesized question (the switch over the operator), the draws
\* d being values of Math.random() in units of 1 / steps.
NewQuestionAt(steps, config, d, id) ==
  LET validOperators == IF Len(config.operators) > 0 THEN config.operators ELSE <<ADD>>
      operator == validOperators[RandomFloorAt(steps, d.op, Len(validOperators), 1) + 1]
      addNum1 == RandomFloorAt(steps, d.a, 7 * config.max - 10 * config.min, 10) + config.min
      addNum2 == RandomFloorAt(steps, d.b, config.max - addNum1 - 10, 1) + 10
      subNum1 == RandomFloorAt(steps, d.a, config.max - config.min, 1) + config.min
      subNum2 == RandomFloorAt(steps, d.b, subNum1 - 5, 1) + 5
      mulNum1 == IF config.max < 300 THEN RandomFloorAt(steps, d.a, 50, 1) + 11
                                     ELSE RandomFloorAt(steps, d.a, 80, 1) + 12
      mulNum2 == IF config.max < 300 THEN RandomFloorAt(steps, d.b, 8, 1) + 2
                                     ELSE RandomFloorAt(steps, d.b, 11, 1) + 3
      divisor == RandomFloorAt(steps, d.a, 8, 1) + 2
      quotient == RandomFloorAt(steps, d.b, config.max, 10) + 11
      base == [id |-> id, operator |-> operator, isReview |-> FALSE,
               isBoss |-> FALSE, bossText |-> ""]
  IN  CASE operator = ADD ->
             base @@ [num1 |-> addNum1, num2 |-> addNum2, answer |-> addNum1 + addNum2]
        [] operator = SUBTRACT ->
             base @@ [num1 |-> subNum1, num2 |-> subNum2, answer |-> subNum1 - subNum2]
        [] operator = MULTIPLY ->
             base @@ [num1 |-> mulNum1, num2 |-> mulNum2, answer |-> mulNum1 * mulNum2]
        [] operator = DIVIDE ->
             base @@ [num1 |-> quotient * divisor, num2 |-> divisor, answer |-> quotient]

\* The same for draws in units of 1 / RandDen.
NewQuestion(config, d, id) == NewQuestionAt(RandDen, config, d, id)

\* generateQuestion(config, undefined, mistakes) at Date.now() = now with the
\* random draws d in units of 1 / steps; id is the value generateId() returns.
generateQuestionAt(steps, config, mistakes, now, d, id) ==
  LET dueMistakes == SelectSeq(mistakes, LAMBDA m : m.nextReviewTime <= now)
      sorted == SortByNextReviewTime(dueMistakes)
      topCandidates == SubSeq(sorted, 1, Min(3, Len(sorted)))
      mistake == topCandidates[RandomFloorAt(steps, d.pick, Len(topCandidates), 1) + 1]
  IN  IF Len(dueMistakes) > 0 /\ 10 * d.review < 3 * steps
      THEN [mistake.question EXCEPT !.id = id, !.isReview = TRUE]
      ELSE IF steps = RandDen THEN NewQuestion(config, d, id)
      ELSE NewQuestionAt(steps, config, d, id)

\* The same for draws in units of 1 / RandDen.
generateQuestion(config, mistakes, now, d, id) ==
  generateQuestionAt(RandDen, config, mistakes, now, d, id)

\* ------------------------------------------------------------ badge catalog
\* BADGES, in the order the catalog is built: level_i, total_count, streak_i,
\* op_<op>_<count>, boss_i.  A badge id is the record [category, op, n].
Badge(category, op, n) == [category |-> category, op |-> op, n |-> n]
questionMilestones ==
  << 1, 10, 20, 50, 80, 100, 150, 200, 300, 400, 500, 600, 700, 800, 900, 1000,
     1200, 1500, 2000, 2500, 3000, 4000, 5000, 6000, 7000, 8000, 9000, 10000 >>
opMilestones == << 10, 50, 100, 200, 500, 1000 >>
BADGES ==
  [i \in 1..100 |-> Badge("level", "", i)]
  \o [i \in 1..Len(questionMilestones) |-> Badge("total", "", questionMilestones[i])]
  \o [i \in 1..20 |-> Badge("streak", "", 5 * i)]
  \o [i \in 1..(4 * Len(opMilestones)) |->
        Badge("operator", Operators[((i - 1) \div Len(opMilestones)) + 1],
              opMilestones[((i - 1) % Len(opMilestones)) + 1])]
  \o [i \in 1..20 |-> Badge("boss", "", i)]

\* badge.condition(s)
BadgeCondition(badge, s) ==
  CASE badge.category = "level" -> s.level >= badge.n
    [] badge.category = "total" -> s.correctAnswers >= badge.n
    [] badge.category = "streak" -> s.maxStreak >= badge.n
    [] badge.category = "operator" -> s.operatorStats[badge.op].correct >= badge.n
    [] badge.category = "boss" -> s.bossesDefeated >= badge.n

InSeq(x, s) == \E i \in 1..Len(s) : s[i] = x

\* A variant that does not skip the badges already held.
checkBadges_NoSkip(currentStats) ==
  SelectSeq(BADGES, LAMBDA badge : BadgeCondition(badge, currentStats))

\* checkBadges(currentStats)
checkBadges(currentStats) ==
  SelectSeq(BADGES, LAMBDA badge :
     BadgeCondition(badge, currentStats) /\ ~InSeq(badge, currentStats.badges))

\* ------------------------------------------------------------------- stats
INITIAL_STATS ==
  [level |-> 1, xp |-> 0, points |-> 0, rewardsRedeemed |-> <<>>,
   currentStage |-> 1, stageStars |-> <<>>, totalQuestions |-> 0,
   correctAnswers |-> 0, currentStreak |-> 0, maxStreak |-> 0,
   badges |-> <<>>, mistakes |-> <<>>, dailyActivity |-> <<>>,
   stageHistory |-> <<>>, bossesDefeated |-> 0,
   operatorStats |->
     [op \in {ADD, SUBTRACT, MULTIPLY, DIVIDE} |->
        [attempts |-> 0, correct |-> 0, totalTimeMs |-> 0]]]

\* stageStars is a map stage -> stars, kept as a function on the stages that
\* have an entry; prev.stageStars[n] || 0.
StarsOf(stageStars, n) == IF n \in DOMAIN stageStars THEN stageStars[n] ELSE 0

\* new Date().toISOString().split('T')[0]: the calendar day of now.
Today(now) == now \div OneDay

\* A variant of the lookup that matches the record by question id.
MistakeIndex_ById(mistakes, q) ==
  LET hits == {i \in 1..Len(mistakes) : mistakes[i].question.id = q.id}
  IN  IF hits = {} THEN 0 ELSE CHOOSE i \in hits : \A j \in hits : i <= j

\* findIndex: the first index (from 1) whose element satisfies the test, 0 if none.
MistakeIndex(mistakes, q) ==
  LET hits == {i \in 1..Len(mistakes) :
                 /\ mistakes[i].question.num1 = q.num1
                 /\ mistakes[i].question.num2 = q.num2
                 /\ mistakes[i].question.operator = q.operator}
  IN  IF hits = {} THEN 0 ELSE CHOOSE i \in hits : \A j \in hits : i <= j

RemoveAt(s, i) == SubSeq(s, 1, i - 1) \o SubSeq(s, i + 1, Len(s))

\* The SRS part of handleAnswer: the new stats.mistakes.
NewMistakes(mistakes, currentQuestion, correct, userAnswer, now) ==
  LET mistakeIndex == MistakeIndex(mistakes, currentQuestion)
      updatedRecord == calculateNextReview(mistakes[mistakeIndex], correct, now)
  IN  IF mistakeIndex > 0
      THEN IF updatedRecord = Null
           THEN RemoveAt(mistakes, mistakeIndex)
           ELSE [mistakes EXCEPT ![mistakeIndex] = updatedRecord]
      ELSE IF ~correct
      THEN Append(mistakes,
                  [question |-> currentQuestion, userAnswer |-> userAnswer,
                   timestamp |-> now, reviewCount |-> 0,
                   nextReviewTime |-> now + 60 * 1000, proficiency |-> 0])
      ELSE mistakes

\* A variant that reads the threshold one entry too far.
NewLevel_NextEntry(level, newXp) ==
  IF LEVEL_Thresholds(level + 1) # 0 /\ newXp >= LEVEL_Thresholds(level + 1)
  THEN level + 1 ELSE level

\* Level Logic of handleAnswer.
NewLevel(level, newXp) ==
  IF LEVEL_Thresholds(level) # 0 /\ newXp >= LEVEL_Thresholds(level)
  THEN level + 1 ELSE level

\* Counters of handleAnswer: newCorrect, newStreak, newMaxStreak.
NewCorrect(correctAnswers, correct) ==
  IF correct THEN correctAnswers + 1 ELSE correctAnswers
NewStreak(currentStreak, correct) == IF correct THEN currentStreak + 1 ELSE 0
\* A variant that leaves the maximum behind a growing streak.
NewMaxStreak_Lagging(maxStreak, newStreak) == Max(maxStreak, newStreak - 1)
NewMaxStreak(maxStreak, newStreak) == Max(maxStreak, newStreak)

\* Variants of the reward: no cap on the streak part; a miss costs a point of xp.
FinalXpGain_NoCap(correct, newStreak, isBoss) ==
  LET xpGain == IF correct THEN 10 + newStreak ELSE 1
  IN  IF correct /\ isBoss THEN xpGain + 50 ELSE xpGain
FinalXpGain_Penalty(correct, newStreak, isBoss) ==
  LET xpGain == IF correct THEN 10 + Min(newStreak, 10) ELSE -1
  IN  IF correct /\ isBoss THEN xpGain + 50 ELSE xpGain

\* xpGain with the Boss Bonus: finalXpGain.
FinalXpGain(correct, newStreak, isBoss) ==
  LET xpGain == IF correct THEN 10 + Min(newStreak, 10) ELSE 1
  IN  IF correct /\ isBoss THEN xpGain + 50 ELSE xpGain

\* A variant that adds the boss points to the point of a correct answer.
PointsGain_Added(correct, isBoss) ==
  IF correct THEN 1 + (IF isBoss THEN 5 ELSE 0) ELSE 0

\* Points Logic: pointsGain.
PointsGain(correct, isBoss) == IF correct THEN (IF isBoss THEN 5 ELSE 1) ELSE 0

NewBossesDefeated(bossesDefeated, correct, isBoss) ==
  IF correct /\ isBoss THEN bossesDefeated + 1 ELSE bossesDefeated

\* The updater handleAnswer passes to setStats: prev => next.
handleAnswerStats(prev, currentQuestion, correct, userAnswer, timeTakenMs, now) ==
  LET newCorrect == NewCorrect(prev.correctAnswers, correct)
      newStreak == NewStreak(prev.currentStreak, correct)
      newMaxStreak == NewMaxStreak(prev.maxStreak, newStreak)
      finalXpGain == FinalXpGain(correct, newStreak, currentQuestion.isBoss)
      newXp == prev.xp + finalXpGain
      pointsGain == PointsGain(correct, currentQuestion.isBoss)
      newPoints == prev.points + pointsGain
      newBossesDefeated ==
        NewBossesDefeated(prev.bossesDefeated, correct, currentQuestion.isBoss)
      newLevel == NewLevel(prev.level, newXp)
      today == Today(now)
      daily == prev.dailyActivity
      todayHits == {i \in 1..Len(daily) : daily[i].date = today}
      newDaily == IF todayHits # {}
                  THEN LET idx == CHOOSE i \in todayHits : \A j \in todayHits : i <= j
                       IN  [daily EXCEPT ![idx].count = daily[idx].count + 1]
                  ELSE Append(daily, [date |-> today, count |-> 1])
      op == currentQuestion.operator
      currentOpStats == prev.operatorStats[op]
      newOpStats == [attempts |-> currentOpStats.attempts + 1,
                     correct |-> currentOpStats.correct + (IF correct THEN 1 ELSE 0),
                     totalTimeMs |-> currentOpStats.totalTimeMs + timeTakenMs]
      newMistakes == NewMistakes(prev.mistakes, currentQuestion, correct, userAnswer, now)
      tempStats == [prev EXCEPT !.level = newLevel, !.xp = newXp, !.points = newPoints,
                                !.totalQuestions = prev.totalQuestions + 1,
                                !.correctAnswers = newCorrect,
                                !.currentStreak = newStreak,
                                !.maxStreak = newMaxStreak,
                                !.mistakes = newMistakes,
                                !.bossesDefeated = newBossesDefeated,
                                !.dailyActivity = newDaily,
                                !.operatorStats = [prev.operatorStats EXCEPT ![op] = newOpStats]]
      earnedBadges == checkBadges(tempStats)
  IN  [tempStats EXCEPT !.badges = prev.badges \o earnedBadges]

\* ------------------------------------------------------------ stage outcome
\* Calculate Stars (finishStage): percentage = correctCount / total.
\* A variant with strict comparisons.
Stars_Strict(correctCount, total) ==
  IF total = 0 THEN 0
  ELSE IF 10 * correctCount > 9 * total THEN 3
  ELSE IF 10 * correctCount > 6 * total THEN 2
  ELSE IF 10 * correctCount > 3 * total THEN 1
  ELSE 0

CorrectCount(answers) == Cardinality({i \in 1..Len(answers) : answers[i].correct})
Stars(correctCount, total) ==
  IF total = 0 THEN 0
  ELSE IF 10 * correctCount >= 9 * total THEN 3
  ELSE IF 10 * correctCount >= 6 * total THEN 2
  ELSE IF 10 * correctCount >= 3 * total THEN 1
  ELSE 0

\* A variant that unlocks the next stage after any stage finished with stars.
finishStageStats_AnyStage(prev, playingStageNumber, stars) ==
  LET oldStars == StarsOf(prev.stageStars, playingStageNumber)
  IN  [prev EXCEPT !.currentStage = prev.currentStage + 1,
                   !.stageStars = (playingStageNumber :> Max(oldStars, stars)) @@ prev.stageStars]

\* The updater finishStage passes to setStats when stars > 0.
finishStageStats(prev, playingStageNumber, stars) ==
  LET nextStage == IF playingStageNumber = prev.currentStage
                   THEN prev.currentStage + 1 ELSE prev.currentStage
      oldStars == StarsOf(prev.stageStars, playingStageNumber)
  IN  [prev EXCEPT !.currentStage = nextStage,
                   !.stageStars = (playingStageNumber :> Max(oldStars, stars)) @@ prev.stageStars]

\* A variant without the early return of the review mode.
finishStage_NoBypass(prev, answers, playingStageNumber, total) ==
  LET stars == Stars(CorrectCount(answers), total)
  IN  IF stars > 0 THEN finishStageStats(prev, playingStageNumber, stars) ELSE prev

\* What finishStage(answers) makes of the stats, for the playingStageNumber
\* and stageQuestions.length of the render it was created in.
finishStage(prev, answers, playingStageNumber, total) ==
  IF playingStageNumber = -1 THEN prev
  ELSE LET stars == Stars(CorrectCount(answers), total)
       IN  IF stars > 0 THEN finishStageStats(prev, playingStageNumber, stars) ELSE prev

\* ------------------------------------------------- boss question collaborator
\* fallbackQuestions of generateBossQuestion (the text is kept as its index).
fallbackQuestions ==
  << [text |-> "fallback1", answer |-> 83], [text |-> "fallback2", answer |-> 40],
     [text |-> "fallback3", answer |-> 180], [text |-> "fallback4", answer |-> 8],
     [text |-> "fallback5", answer |-> 100] >>

\* What generateBossQuestion resolves to: the {text, answer} parsed from the
\* external reply (the example of the prompt stands for a well-formed reply),
\* or fallbackQuestions[Math.floor(Math.random() * 5)] for the least and the
\* greatest value of Math.random().
BossResults ==
  {[text |-> "ai", answer |-> 65]}
  \cup {fallbackQuestions[RandomFloor(k, Len(fallbackQuestions), 1) + 1] : k \in {0, RandDen - 1}}

\* The question startStage and startBossChallenge build from bossQ.
BossQuestionOf(bossQ, id) ==
  [id |-> id, num1 |-> 0, num2 |-> 0, operator |-> ADD, answer |-> bossQ.answer,
   isReview |-> FALSE, isBoss |-> TRUE, bossText |-> bossQ.text]

\* -------------------------------------------------------------- rewards shop
\* The catalog the dashboard offers to handleRedeemReward.
REWARDS == {[name |-> "reward", cost |-> 5]}

\* ------------------------------------------------------------------- state
VARIABLES
  view,                \* App: 'dashboard' | 'game' | 'review' | 'stage_summary'
  stats,               \* App: UserStats
  loading,             \* App: the loading overlay is shown
  stageQuestions,      \* App: the batch of the session
  currentQIndex,       \* App: index (from 0) of the question on screen
  stageAnswers,        \* App: {qId, correct, val} of the answers so far
  playingStageNumber,  \* App: stage of the session, -1 in review mode
  status,              \* GameArena: 'idle' | 'correct' | 'wrong'
  startTime,           \* GameArena: startTimeRef.current
  timers,              \* feedback timers set by handleSubmit and not yet fired
  pending,             \* the start handler suspended at await generateBossQuestion
  now,                 \* Date.now()
  sessions,            \* batches created so far (the source of fresh ids)
  event,               \* the arguments of the last handleAnswer call applied
  voice                \* GameArena: the speech recognition and its onresult closure

vars == << view, stats, loading, stageQuestions, currentQIndex, stageAnswers,
           playingStageNumber, status, startTime, timers, pending, now, sessions,
           event, voice >>

NoPending == [kind |-> "none"]
NoEvent == [kind |-> "none"]
\* recognitionRef.current is unset or stopped.
NoVoice == [kind |-> "off"]

\* The question id generateId() / 'boss_' + Date.now() / `review_...` returns for
\* slot i of batch n: ids are unique per instance.
FreshId(n, i) == << n, i >>

\* view === 'game' && stageQuestions.length > 0 && stageQuestions[currentQIndex]
Mounted(v, qs, idx) == v = "game" /\ Len(qs) > 0 /\ idx >= 0 /\ idx < Len(qs)

\* GameArena's status and startTimeRef after a step that leaves the App with
\* view v, batch qs and index idx: reset by the effect on [question.id] (and on
\* mount), kept while the same question stays on screen.
ArenaAfter(v, qs, idx) ==
  IF Mounted(v, qs, idx)
  THEN IF Mounted(view, stageQuestions, currentQIndex)
          /\ stageQuestions[currentQIndex + 1].id = qs[idx + 1].id
       THEN [status |-> status, startTime |-> startTime]
       ELSE [status |-> "idle", startTime |-> now]
  ELSE [status |-> "idle", startTime |-> 0]

\* The cleanup effect stops the recognition when GameArena unmounts.
VoiceAfter(v, qs, idx) ==
  IF Mounted(v, qs, idx) /\ Mounted(view, stageQuestions, currentQIndex)
  THEN voice ELSE NoVoice

SetArena(v, qs, idx) ==
  /\ status' = ArenaAfter(v, qs, idx).status
  /\ startTime' = ArenaAfter(v, qs, idx).startTime
  /\ voice' = VoiceAfter(v, qs, idx)

\* The app as it is constructed at time t, with the stats s.
InitWith(s, t) ==
  /\ view = "dashboard"
  /\ stats = s
  /\ loading = FALSE
  /\ stageQuestions = <<>>
  /\ currentQIndex = 0
  /\ stageAnswers = <<>>
  /\ playingStageNumber = 1
  /\ status = "idle"
  /\ startTime = 0
  /\ timers = <<>>
  /\ pending = NoPending
  /\ now = t
  /\ sessions = 0
  /\ event = NoEvent
  /\ voice = NoVoice

Init == InitWith(INITIAL_STATS, 0)

\* ---------------------------------------------------------- starting a session
\* const questionCount = 10 (startStage); sorted.slice(0, 15) (startReviewGame).
questionCount == 10
reviewBatchSize == 15

\* The draws of one startStage: the same values in each of its iterations, with
\* the review decision taken (0) or not (RandDen - 1), one of the first two
\* operators, and the least operands.
SlotDraws ==
  {d \in DrawTuples : /\ d.review \in {0, RandDen - 1}
                      /\ d.pick = 0 /\ d.op \in {0, 1} /\ d.a = 0 /\ d.b = 0}

\* The for loop of startStage: mistakes may appear in the first 3 slots only.
StageBatch(stageConfig, mistakes, d, n) ==
  [i \in 1..questionCount |->
     generateQuestion(stageConfig, IF i - 1 < 3 THEN mistakes ELSE <<>>, now, d,
                      FreshId(n, i))]

\* [...mistakes].sort(...) of startReviewGame: due records first, then the lowest
\* proficiency first (a stable sort, written as the rank of every element).
SortForReview(s) ==
  LET Due(m) == m.nextReviewTime <= now
      Cmp(a, b) == IF Due(a) /\ ~Due(b) THEN -1
                   ELSE IF ~Due(a) /\ Due(b) THEN 1
                   ELSE a.proficiency - b.proficiency
      Before(j, i) == Cmp(s[j], s[i]) < 0 \/ (Cmp(s[j], s[i]) = 0 /\ j < i)
      Rank(i) == Cardinality({j \in 1..Len(s) : Before(j, i)}) + 1
  IN  [r \in 1..Len(s) |-> s[CHOOSE i \in 1..Len(s) : Rank(i) = r]]

\* The questions startReviewGame builds for batch n from the mistakes.
ReviewQuestions(mistakes, n) ==
  LET sorted == SortForReview(mistakes)
      batch == SubSeq(sorted, 1, Min(reviewBatchSize, Len(sorted)))
  IN  [i \in 1..Len(batch) |->
         [batch[i].question EXCEPT !.id = FreshId(n, i), !.isReview = TRUE]]

startReviewGame ==
  /\ ~loading
  /\ view = "review" \/ (view = "stage_summary" /\ playingStageNumber = -1)
  /\ Len(stats.mistakes) > 0
  /\ sessions < MaxSessions
  /\ LET questions == ReviewQuestions(stats.mistakes, sessions + 1)
     IN  /\ stageQuestions' = questions
         /\ SetArena("game", questions, 0)
  /\ stageAnswers' = <<>>
  /\ currentQIndex' = 0
  /\ playingStageNumber' = -1
  /\ view' = "game"
  /\ sessions' = sessions + 1
  /\ UNCHANGED << stats, loading, timers, pending, now, event >>

\* startStage(stageNum) up to its await (a boss stage) or to its end.
startStage(stageNum, d) ==
  /\ ~loading
  /\ \/ view = "dashboard" /\ stageNum <= stats.currentStage
     \/ view = "stage_summary" /\ playingStageNumber # -1 /\ stageNum = playingStageNumber
  /\ sessions < MaxSessions
  /\ LET questions == StageBatch(getStageConfig(stageNum), stats.mistakes, d, sessions + 1)
     IN  IF stageNum % 5 = 0
         THEN /\ pending' = [kind |-> "stage", questions |-> questions, n |-> sessions + 1]
              /\ loading' = TRUE
              /\ SetArena(view, stageQuestions, 0)
              /\ UNCHANGED << view, stageQuestions >>
         ELSE /\ stageQuestions' = questions
              /\ view' = "game"
              /\ SetArena("game", questions, 0)
              /\ UNCHANGED << pending, loading >>
  /\ playingStageNumber' = stageNum
  /\ stageAnswers' = <<>>
  /\ currentQIndex' = 0
  /\ sessions' = sessions + 1
  /\ UNCHANGED << stats, timers, now, event >>

\* startBossChallenge up to its await.
startBossChallenge ==
  /\ ~loading
  /\ view = "dashboard"
  /\ sessions < MaxSessions
  /\ playingStageNumber' = stats.currentStage
  /\ loading' = TRUE
  /\ stageAnswers' = <<>>
  /\ currentQIndex' = 0
  /\ pending' = [kind |-> "challenge", questions |-> <<>>, n |-> sessions + 1]
  /\ sessions' = sessions + 1
  /\ SetArena(view, stageQuestions, 0)
  /\ UNCHANGED << view, stats, stageQuestions, timers, now, event >>

\* generateBossQuestion resolves to bossQ and the suspended handler resumes.
generateBossQuestion(bossQ) ==
  /\ pending.kind # "none"
  /\ LET q == BossQuestionOf(bossQ, FreshId(pending.n, 0))
         questions == IF pending.kind = "stage"
                      THEN [pending.questions EXCEPT ![Len(pending.questions)] = q]
                      ELSE << q >>
     IN  /\ stageQuestions' = questions
         /\ SetArena("game", questions, currentQIndex)
  /\ loading' = FALSE
  /\ view' = "game"
  /\ pending' = NoPending
  /\ UNCHANGED << stats, currentQIndex, stageAnswers, playingStageNumber, timers,
                  now, sessions, event >>

\* ------------------------------------------------------------ answering
\* GameArena.handleSubmit with the value question.answer + off typed in: the
\* feedback timer keeps the onAnswer (App.handleAnswer) of the render it was set
\* in, that is the batch, index, answers and stage number of that render.
handleSubmit(off) ==
  /\ ~loading
  /\ Mounted(view, stageQuestions, currentQIndex)
  /\ status = "idle"
  /\ stats.totalQuestions + Len(timers) < MaxAnswers
  /\ LET question == stageQuestions[currentQIndex + 1]
         numVal == question.answer + off
         isCorrect == numVal = question.answer
     IN  /\ status' = IF isCorrect THEN "correct" ELSE "wrong"
         /\ timers' = Append(timers,
               [correct |-> isCorrect, val |-> numVal, timeTaken |-> now - startTime,
                questions |-> stageQuestions, qIndex |-> currentQIndex,
                answers |-> stageAnswers, playing |-> playingStageNumber])
  /\ UNCHANGED << view, stats, loading, stageQuestions, currentQIndex, stageAnswers,
                  playingStageNumber, startTime, pending, now, sessions, event, voice >>

\* The i-th pending feedback timer fires: App.handleAnswer(correct, userAnswer,
\* timeTakenMs) of the render the timer was set in, finishStage included.
handleAnswer(i) ==
  LET t == timers[i]
      currentQuestion == t.questions[t.qIndex + 1]
      newAnswers == Append(t.answers,
                           [qId |-> currentQuestion.id, correct |-> t.correct, val |-> t.val])
      answered == handleAnswerStats(stats, currentQuestion, t.correct, t.val, t.timeTaken, now)
      last == ~(t.qIndex < Len(t.questions) - 1)
      newIndex == IF last THEN currentQIndex ELSE currentQIndex + 1
      newView == IF last THEN "stage_summary" ELSE view
  IN  /\ t.qIndex < Len(t.questions)
      /\ stageAnswers' = newAnswers
      /\ stats' = IF last
                  THEN finishStage(answered, newAnswers, t.playing, Len(t.questions))
                  ELSE answered
      /\ currentQIndex' = newIndex
      /\ view' = newView
      /\ SetArena(newView, stageQuestions, newIndex)
      /\ timers' = RemoveAt(timers, i)
      /\ event' = [question |-> currentQuestion, correct |-> t.correct,
                   userAnswer |-> t.val, timeTakenMs |-> t.timeTaken]
      /\ UNCHANGED << loading, stageQuestions, playingStageNumber, pending, now, sessions >>

\* ----------------------------------------------------------- other handlers
\* handleRedeemReward(reward), the confirmation accepted.
handleRedeemReward(reward) ==
  /\ ~loading
  /\ view = "dashboard"
  /\ stats.points >= reward.cost
  /\ stats' = [stats EXCEPT !.points = stats.points - reward.cost,
                            !.rewardsRedeemed =
                               Append(stats.rewardsRedeemed,
                                      [name |-> reward.name, cost |-> reward.cost, id |-> now])]
  /\ UNCHANGED << view, loading, stageQuestions, currentQIndex, stageAnswers,
                  playingStageNumber, status, startTime, timers, pending, now, sessions, event,
                  voice >>

\* handleResetData, the confirmation accepted: the page is reloaded, so every
\* component state starts over and no timer or pending call survives.
handleResetData ==
  /\ ~loading
  /\ view = "dashboard"
  /\ view' = "dashboard"
  /\ stats' = INITIAL_STATS
  /\ loading' = FALSE
  /\ stageQuestions' = <<>>
  /\ currentQIndex' = 0
  /\ stageAnswers' = <<>>
  /\ playingStageNumber' = 1
  /\ status' = "idle"
  /\ startTime' = 0
  /\ timers' = <<>>
  /\ pending' = NoPending
  /\ event' = NoEvent
  /\ voice' = NoVoice
  /\ UNCHANGED << now, sessions >>

\* setView('dashboard'): the header, GameArena's onExit, StageSummary's onNext,
\* MistakeReview's onBack.
setViewDashboard ==
  /\ ~loading
  /\ view # "dashboard"
  /\ view' = "dashboard"
  /\ SetArena("dashboard", stageQuestions, currentQIndex)
  /\ UNCHANGED << stats, loading, stageQuestions, currentQIndex, stageAnswers,
                  playingStageNumber, timers, pending, now, sessions, event >>

\* Dashboard's onReview: setView('review').
onReview ==
  /\ ~loading
  /\ view = "dashboard"
  /\ view' = "review"
  /\ UNCHANGED << stats, loading, stageQuestions, currentQIndex, stageAnswers,
                  playingStageNumber, status, startTime, timers, pending, now, sessions, event,
                  voice >>

\* A minute passes. The feedback timers (800 to 2500 ms) and the external call
\* are over within the minute they started in.
Tick ==
  /\ timers = <<>>
  /\ pending = NoPending
  /\ now < MaxMinutes * OneMinute
  /\ now' = now + OneMinute
  /\ UNCHANGED << view, stats, loading, stageQuestions, currentQIndex, stageAnswers,
                  playingStageNumber, status, startTime, timers, pending, sessions, event,
                  voice >>

\* What the learner types, as the distance from the expected answer.
TypedOffsets == {0, 1}

Next ==
  \/ startReviewGame
  \/ \E stageNum \in 1..100 : \E d \in SlotDraws : startStage(stageNum, d)
  \/ startBossChallenge
  \/ \E bossQ \in BossResults : generateBossQuestion(bossQ)
  \/ \E off \in TypedOffsets : handleSubmit(off)
  \/ \E i \in 1..Len(timers) : handleAnswer(i)
  \/ \E reward \in REWARDS : handleRedeemReward(reward)
  \/ handleResetData
  \/ (timers = <<>> /\ setViewDashboard)
  \/ onReview
  \/ Tick

Spec == Init /\ [][Next]_vars

\* ------------------------------------------------------------ voice control
\* toggleVoiceControl: stops the recognition when it is listening; otherwise
\* starts one whose onresult keeps the handleSubmit of this render, that is its
\* status, its question and its onAnswer (batch, index, answers, stage number).
toggleVoiceControl ==
  /\ ~loading
  /\ Mounted(view, stageQuestions, currentQIndex)
  /\ voice' = IF voice.kind = "on" THEN NoVoice
              ELSE [kind |-> "on", status |-> status, questions |-> stageQuestions,
                    qIndex |-> currentQIndex, answers |-> stageAnswers,
                    playing |-> playingStageNumber]
  /\ UNCHANGED << view, stats, loading, stageQuestions, currentQIndex, stageAnswers,
                  playingStageNumber, status, startTime, timers, pending, now, sessions,
                  event >>

\* recognition.onresult for a transcript with a number and a submit command:
\* handleSubmit(undefined, detectedNumber) of the render the recognition was
\* started in, with the number question.answer + off.
onresult(off) ==
  /\ voice.kind = "on"
  /\ voice.status = "idle"
  /\ stats.totalQuestions + Len(timers) < MaxAnswers
  /\ LET question == voice.questions[voice.qIndex + 1]
         numVal == question.answer + off
         isCorrect == numVal = question.answer
     IN  /\ status' = IF isCorrect THEN "correct" ELSE "wrong"
         /\ timers' = Append(timers,
               [correct |-> isCorrect, val |-> numVal, timeTaken |-> now - startTime,
                questions |-> voice.questions, qIndex |-> voice.qIndex,
                answers |-> voice.answers, playing |-> voice.playing])
  /\ UNCHANGED << view, stats, loading, stageQuestions, currentQIndex, stageAnswers,
                  playingStageNumber, startTime, pending, now, sessions, event, voice >>

\* The app with the learner using the voice control too.
VoiceNext ==
  \/ Next
  \/ toggleVoiceControl
  \/ \E off \in TypedOffsets : onresult(off)

VoiceSpec == Init /\ [][VoiceNext]_vars

\* ------------------------------------------------------------- scheduling
\* What the scheduling of the code guarantees: a feedback timer that was set
\* fires (setTimeout).  Nothing bounds the time the request awaited by
\* generateBossQuestion takes (fetch and generateContent are called without a
\* timeout or an abort signal), and the learner is free not to act.
LiveSpec == Init /\ [][Next]_vars /\ WF_vars(\E i \in 1..Len(timers) : handleAnswer(i))

\* ------------------------------------------------- the reducer on its own
\* The answer events the reducer is driven with: the question the generator
\* synthesizes for stage 1 with the least draws, or a boss question, answered
\* right or wrong.  Question ids are fresh for every event.
PlainQuestion(id) ==
  NewQuestion(getStageConfig(1), [review |-> 0, pick |-> 0, op |-> 0, a |-> 0, b |-> 0], id)
ReducerQuestions(id) ==
  {PlainQuestion(id), BossQuestionOf([text |-> "ai", answer |-> 65], id)}

\* The stats after k correct answers in a row to the plain question, given at
\* time t from INITIAL_STATS on.
RECURSIVE Practised(_, _)
Practised(k, t) ==
  IF k = 0 THEN INITIAL_STATS
  ELSE LET q == PlainQuestion(FreshId(0, k))
       IN  handleAnswerStats(Practised(k - 1, t), q, TRUE, q.answer, 0, t)

\* One answer event applied to the stats by the updater of handleAnswer, as
\* the timer of handleSubmit delivers it (val is the answer or a wrong value);
\* the next question comes on screen.
applyAnswer(question, correct) ==
  LET userAnswer == IF correct THEN question.answer ELSE question.answer + 1
      timeTakenMs == now - startTime
  IN  /\ stats' = handleAnswerStats(stats, question, correct, userAnswer, timeTakenMs, now)
      /\ event' = [question |-> question, correct |-> correct,
                   userAnswer |-> userAnswer, timeTakenMs |-> timeTakenMs]
      /\ currentQIndex' = currentQIndex + 1
      /\ UNCHANGED << view, loading, stageQuestions, stageAnswers,
                      playingStageNumber, status, startTime, timers, pending, now,
                      sessions, voice >>

\* The events start from the fresh stats or after a streak of WarmUp correct
\* answers, at any minute the clock of Spec reaches.
ReducerInit ==
  \E k \in {0, WarmUp} : \E m \in 0..MaxMinutes :
     InitWith(Practised(k, m * OneMinute), m * OneMinute)

ReducerNext ==
  /\ currentQIndex < MaxEvents
  /\ \E question \in ReducerQuestions(FreshId(0, stats.totalQuestions + 1)) :
       \E correct \in BOOLEAN : applyAnswer(question, correct)

ReducerSpec == ReducerInit /\ [][ReducerNext]_vars

\* ------------------------------------------------- the end of a session
\* A batch startStage can build for stage `stage` as batch n: no review
\* question, the operators in turn, the least operands.
SampleBatch(stage, n) ==
  [i \in 1..questionCount |->
     NewQuestion(getStageConfig(stage),
                 [review |-> RandDen - 1, pick |-> 0, op |-> (i - 1) % RandDen,
                  a |-> 0, b |-> 0],
                 FreshId(n, i))]

\* The first c answers correct, the others wrong.
AnswerPattern(c, n) == [i \in 1..n |-> i <= c]

\* What the learner typed for question q.
TypedFor(q, correct) == IF correct THEN q.answer ELSE q.answer + 1

\* stageAnswers after the first j questions were answered by the pattern.
AnswersOf(questions, pattern, j) ==
  [i \in 1..j |-> [qId |-> questions[i].id, correct |-> pattern[i],
                   val |-> TypedFor(questions[i], pattern[i])]]

\* The stats after handleAnswer was applied to the first j questions, at time t.
RECURSIVE PlayedAnswers(_, _, _, _, _)
PlayedAnswers(s, questions, pattern, j, t) ==
  IF j = 0 THEN s
  ELSE handleAnswerStats(PlayedAnswers(s, questions, pattern, j - 1, t), questions[j],
                         pattern[j], TypedFor(questions[j], pattern[j]), 0, t)

\* The stats after the stages 1..k were each played once and finished with 6
\* correct answers of 10 (2 stars, the missed facts in the mistake list).
RECURSIVE Cleared(_, _)
Cleared(k, t) ==
  IF k = 0 THEN INITIAL_STATS
  ELSE LET questions == SampleBatch(k, k)
           pattern == AnswerPattern(6, questionCount)
       IN  finishStage(PlayedAnswers(Cleared(k - 1, t), questions, pattern, questionCount, t),
                       AnswersOf(questions, pattern, questionCount), k, questionCount)

\* The app while the feedback of the last question of a session is on screen:
\* k stages were finished before, the session plays stage `playing` (-1: the
\* mistake bootcamp), the first c questions were answered correctly, the
\* others wrong, and the timer handleSubmit set for the last answer is pending.
StageEndInit ==
  \E k \in 0..MaxCleared : \E playing \in {-1} \cup 1..(k + 1) :
    LET start == Cleared(k, 0)
    IN  /\ now = 0
        /\ playing = -1 => Len(start.mistakes) > 0
        /\ stageQuestions = IF playing = -1 THEN ReviewQuestions(start.mistakes, k + 1)
                                            ELSE SampleBatch(playing, k + 1)
        /\ \E c \in 0..Len(stageQuestions) :
             LET n == Len(stageQuestions)
                 pattern == AnswerPattern(c, n)
                 last == stageQuestions[n]
             IN  /\ stats = PlayedAnswers(start, stageQuestions, pattern, n - 1, 0)
                 /\ stageAnswers = AnswersOf(stageQuestions, pattern, n - 1)
                 /\ currentQIndex = n - 1
                 /\ status = IF pattern[n] THEN "correct" ELSE "wrong"
                 /\ timers = << [correct |-> pattern[n], val |-> TypedFor(last, pattern[n]),
                                 timeTaken |-> 0, questions |-> stageQuestions,
                                 qIndex |-> n - 1, answers |-> stageAnswers,
                                 playing |-> playing] >>
                 /\ event = IF n = 1 THEN NoEvent
                            ELSE [question |-> stageQuestions[n - 1], correct |-> pattern[n - 1],
                                  userAnswer |-> TypedFor(stageQuestions[n - 1], pattern[n - 1]),
                                  timeTakenMs |-> 0]
        /\ playingStageNumber = playing
        /\ view = "game"
        /\ loading = FALSE
        /\ startTime = 0
        /\ pending = NoPending
        /\ sessions = k + 1
        /\ voice = NoVoice

StageEndNext ==
  \/ \E i \in 1..Len(timers) : handleAnswer(i)
  \/ (timers = <<>> /\ setViewDashboard)

StageEndSpec == StageEndInit /\ [][StageEndNext]_vars

\* ------------------------------------------------ the generator on its own
\* typeof maxNumberOrConfig === 'number': the legacy call generateQuestion(n, ops).
LegacyConfig(maxNumber, operators) ==
  [min |-> 1, max |-> maxNumber, operators |-> operators]

\* The configs getStageConfig returns for the stages 1..100.
StageConfigs == {getStageConfig(stage) : stage \in 1..100}

\* Configs with degenerate bounds: max = min, max < min, a range smaller than
\* the offsets of the operators (a legacy call), and no operator at all.
DegenerateConfigs ==
  { [min |-> 10, max |-> 10, operators |-> Operators],
    [min |-> 200, max |-> 10, operators |-> Operators],
    LegacyConfig(5, Operators),
    [min |-> 10, max |-> 200, operators |-> << >>] }

\* A mistake list as handleAnswer leaves it: six facts missed once, due at
\* different times within the first minutes, not in the order of their times.
MistakeSample ==
  LET due == << 50000, 20000, 70000, 10000, 60000, 30000 >>
  IN  [i \in 1..Len(due) |->
         [question |-> [id |-> FreshId(0, i), num1 |-> 10 + i, num2 |-> 10,
                        operator |-> ADD, answer |-> 20 + i, isReview |-> FALSE,
                        isBoss |-> FALSE, bossText |-> ""],
          userAnswer |-> 0, timestamp |-> due[i] - 60 * 1000, reviewCount |-> 0,
          nextReviewTime |-> due[i], proficiency |-> 0]]

Reverse(s) == [i \in 1..Len(s) |-> s[Len(s) + 1 - i]]

\* The arguments of the calls: any config without mistakes, and the config of
\* stage 1 with the sample list, in both orders, or with its first two records.
GeneratorArguments ==
  { [config |-> config, mistakes |-> << >>] : config \in StageConfigs \cup DegenerateConfigs }
  \cup { [config |-> getStageConfig(1), mistakes |-> m] :
           m \in {MistakeSample, Reverse(MistakeSample), SubSeq(MistakeSample, 1, 2)} }

\* A call generateQuestion(config, undefined, mistakes) is about to be made, at
\* some minute, with the values d to come from Math.random().
GeneratorInit ==
  \E args \in GeneratorArguments : \E d \in DrawTuples : \E m \in 0..MaxMinutes :
     /\ view = "dashboard"
     /\ stats = INITIAL_STATS
     /\ loading = FALSE
     /\ stageQuestions = <<>>
     /\ currentQIndex = 0
     /\ stageAnswers = <<>>
     /\ playingStageNumber = 1
     /\ status = "idle"
     /\ startTime = 0
     /\ timers = <<>>
     /\ pending = [kind |-> "generateQuestion", steps |-> RandDen, config |-> args.config,
                   mistakes |-> args.mistakes, d |-> d]
     /\ now = m * OneMinute
     /\ sessions = 0
     /\ event = NoEvent
     /\ voice = NoVoice

\* The call returns: the question is the one element of stageQuestions and
\* event keeps the arguments of the call.
generateQuestionCall ==
  /\ pending.kind = "generateQuestion"
  /\ stageQuestions' = << IF pending.steps = RandDen
                          THEN generateQuestion(pending.config, pending.mistakes, now,
                                                pending.d, FreshId(1, 1))
                          ELSE generateQuestionAt(pending.steps, pending.config,
                                                  pending.mistakes, now, pending.d,
                                                  FreshId(1, 1)) >>
  /\ event' = pending
  /\ pending' = NoPending
  /\ UNCHANGED << view, stats, loading, currentQIndex, stageAnswers, playingStageNumber,
                  status, startTime, timers, now, sessions, voice >>

GeneratorNext == generateQuestionCall

GeneratorSpec == GeneratorInit /\ [][GeneratorNext]_vars

\* ------------------------------------------------------ loading a snapshot
\* JSON.parse(saved) of a snapshot JSON.stringify wrote when the fields in
\* `missing` did not exist: the parsed object has the other fields of s.
Without(s, missing) == [f \in DOMAIN s \ missing |-> s[f]]

\* parsed.f = v
Fill(parsed, f, v) == [g \in DOMAIN parsed \cup {f} |-> IF g = f THEN v ELSE parsed[g]]

\* "Migration: Ensure new fields exist": the six assignments of the load effect.
Migrate(parsed) ==
  LET p1 == IF "operatorStats" \notin DOMAIN parsed
            THEN Fill(parsed, "operatorStats", INITIAL_STATS.operatorStats) ELSE parsed
      p2 == IF "stageStars" \notin DOMAIN p1 THEN Fill(p1, "stageStars", <<>>) ELSE p1
      p3 == IF "currentStage" \notin DOMAIN p2 \/ p2["currentStage"] = 0
            THEN Fill(p2, "currentStage", 1) ELSE p2
      p4 == IF "bossesDefeated" \notin DOMAIN p3 THEN Fill(p3, "bossesDefeated", 0) ELSE p3
      p5 == IF "points" \notin DOMAIN p4 THEN Fill(p4, "points", 0) ELSE p4
  IN  IF "rewardsRedeemed" \notin DOMAIN p5 THEN Fill(p5, "rewardsRedeemed", <<>>) ELSE p5

\* The snapshots found in localStorage at mount: the stats of a player after
\* WarmUp answers, saved without up to MaxMissing of the fields.
SavedSnapshots ==
  { Without(Practised(WarmUp, 0), missing) :
      missing \in { m \in SUBSET (DOMAIN INITIAL_STATS) : Cardinality(m) <= MaxMissing } }

\* The App is rendered for the first time and the load effect is about to run
\* with the item of localStorage.
LoadInit ==
  \E saved \in SavedSnapshots :
     /\ view = "dashboard"
     /\ stats = INITIAL_STATS
     /\ loading = FALSE
     /\ stageQuestions = <<>>
     /\ currentQIndex = 0
     /\ stageAnswers = <<>>
     /\ playingStageNumber = 1
     /\ status = "idle"
     /\ startTime = 0
     /\ timers = <<>>
     /\ pending = [kind |-> "load", saved |-> saved]
     /\ now = 0
     /\ sessions = 0
     /\ event = NoEvent
     /\ voice = NoVoice

\* The load effect: setStats(parsed) after the migration; event keeps the
\* snapshot that was read.
loadData ==
  /\ pending.kind = "load"
  /\ stats' = Migrate(pending.saved)
  /\ event' = pending
  /\ pending' = NoPending
  /\ UNCHANGED << view, loading, stageQuestions, currentQIndex, stageAnswers,
                  playingStageNumber, status, startTime, timers, now, sessions, voice >>

LoadNext == loadData

LoadSpec == LoadInit /\ [][LoadNext]_vars


\* ------------------------------------------- the boss question on its own
\* What the external service can send back: nothing usable (the request fails,
\* the text is empty or holds no JSON object), or a JSON object whose answer is
\* the number a.  The service is free in the number it writes.
BossReplies ==
  {[kind |-> "none"]}
  \cup {[kind |-> "json", question |-> "ai", answer |-> a] : a \in {65, 0, -5}}

\* generateBossQuestion for that reply: { text: result.question, answer:
\* Number(result.answer) }, or the fallback question Math.random() = k / RandDen
\* picks.
BossResultOf(reply, k) ==
  IF reply.kind = "json"
  THEN [text |-> reply.question, answer |-> reply.answer]
  ELSE fallbackQuestions[RandomFloor(k, Len(fallbackQuestions), 1) + 1]

\* The first boss stage (stageNum % 5 === 0).
FirstBossStage == 5

\* The stats after k boss challenges were won in a row at time t, from
\* INITIAL_STATS on: each is one correct answer to the one question of its
\* batch, followed by finishStage for the stage that was current.
RECURSIVE Challenged(_, _)
Challenged(k, t) ==
  IF k = 0 THEN INITIAL_STATS
  ELSE LET prev == Challenged(k - 1, t)
           q == BossQuestionOf([text |-> "ai", answer |-> 65], FreshId(k, 0))
       IN  finishStage(handleAnswerStats(prev, q, TRUE, q.answer, 0, t),
                       << [qId |-> q.id, correct |-> TRUE, val |-> q.answer] >>,
                       prev.currentStage, 1)

\* The app is opened by a new player or by one whose current stage is the
\* first boss stage.
BossInit ==
  \E k \in {0, FirstBossStage - 1} : InitWith(Challenged(k, 0), 0)

BossNext ==
  \/ \E stageNum \in 1..100 : \E d \in SlotDraws : startStage(stageNum, d)
  \/ startBossChallenge
  \/ \E reply \in BossReplies : \E k \in 0..(RandDen - 1) :
        generateBossQuestion(BossResultOf(reply, k))
  \/ setViewDashboard

BossSpec == BossInit /\ [][BossNext]_vars

\* ------------------------------------------- handleAnswer without a question
\* The early return of handleAnswer: stageQuestions[currentQIndex] of the
\* render the call belongs to is undefined.  The handler logs with
\* console.error and returns; it sets no state and throws nothing, so the
\* promise of the async function resolves (raised is FALSE).
handleAnswerNoQuestion(i) ==
  /\ ~(timers[i].qIndex < Len(timers[i].questions))
  /\ timers' = RemoveAt(timers, i)
  /\ event' = [kind |-> "no question", raised |-> FALSE, correct |-> timers[i].correct,
               userAnswer |-> timers[i].val, timeTakenMs |-> timers[i].timeTaken]
  /\ UNCHANGED << view, stats, loading, stageQuestions, currentQIndex, stageAnswers,
                  playingStageNumber, status, startTime, pending, now, sessions, voice >>

\* The renders handleAnswer is called for: the dashboard before any session
\* (an empty batch), a batch with the index past its end, and, for comparison,
\* the first question of a batch on screen.
CallRenders ==
  { [view |-> "dashboard", questions |-> << >>, qIndex |-> 0],
    [view |-> "game", questions |-> SampleBatch(1, 1), qIndex |-> questionCount],
    [view |-> "game", questions |-> SampleBatch(1, 1), qIndex |-> 0] }

\* A caller is about to invoke handleAnswer(correct, userAnswer, timeTakenMs)
\* of one of these renders, the player having k answers behind.
CallInit ==
  \E k \in 0..WarmUp : \E r \in CallRenders : \E correct \in BOOLEAN :
    \E userAnswer \in {0, 7} : \E timeTakenMs \in {0, 800} :
     /\ view = r.view
     /\ stats = Practised(k, 0)
     /\ loading = FALSE
     /\ stageQuestions = r.questions
     /\ currentQIndex = r.qIndex
     /\ stageAnswers = <<>>
     /\ playingStageNumber = 1
     /\ status = "idle"
     /\ startTime = 0
     /\ timers = << [correct |-> correct, val |-> userAnswer, timeTaken |-> timeTakenMs,
                     questions |-> r.questions, qIndex |-> r.qIndex,
                     answers |-> << >>, playing |-> 1] >>
     /\ pending = NoPending
     /\ now = 0
     /\ sessions = 1
     /\ event = NoEvent
     /\ voice = NoVoice

CallNext ==
  \/ \E i \in 1..Len(timers) : handleAnswer(i)
  \/ \E i \in 1..Len(timers) : handleAnswerNoQuestion(i)

CallSpec == CallInit /\ [][CallNext]_vars

\* ------------------------------------------- the operands on a finer grid
\* A call generateQuestion(getStageConfig(stage)) is about to be made with no
\* mistakes on record, the operator and the operands to be drawn on the grid
\* of FineSteps values of Math.random().
DivisionInit ==
  \E config \in StageConfigs :
    \E op \in 0..(FineSteps - 1) : \E a \in 0..(FineSteps - 1) : \E b \in 0..(FineSteps - 1) :
     /\ view = "dashboard"
     /\ stats = INITIAL_STATS
     /\ loading = FALSE
     /\ stageQuestions = <<>>
     /\ currentQIndex = 0
     /\ stageAnswers = <<>>
     /\ playingStageNumber = 1
     /\ status = "idle"
     /\ startTime = 0
     /\ timers = <<>>
     /\ pending = [kind |-> "generateQuestion", steps |-> FineSteps, config |-> config,
                   mistakes |-> << >>,
                   d |-> [review |-> 0, pick |-> 0, op |-> op, a |-> a, b |-> b]]
     /\ now = 0
     /\ sessions = 0
     /\ event = NoEvent
     /\ voice = NoVoice

DivisionNext == generateQuestionCall

DivisionSpec == DivisionInit /\ [][DivisionNext]_vars

\* ------------------------------------------- leaving during the feedback
\* The app with the exits GameArena offers while the feedback of an answer is
\* on screen: the exit button and the header stay active, and nothing clears
\* the timer handleSubmit has set (the cleanup of GameArena stops the speech
\* recognition and the audio only).
ExitNext ==
  \/ Next
  \/ setViewDashboard

ExitSpec == Init /\ [][ExitNext]_vars

\* ------------------------------------------------- the effects at mount
\* The first render of App is committed with stats = INITIAL_STATS (useState)
\* and its two effects are about to run in the order they are declared: the
\* load effect, then the save effect.  pending holds the item of localStorage,
\* the effects of the committed render still to run and the stats that render
\* was made with (the value its effects close over); event keeps the item
\* found at mount.
MountInit ==
  \E saved \in SavedSnapshots :
     /\ view = "dashboard"
     /\ stats = INITIAL_STATS
     /\ loading = FALSE
     /\ stageQuestions = <<>>
     /\ currentQIndex = 0
     /\ stageAnswers = <<>>
     /\ playingStageNumber = 1
     /\ status = "idle"
     /\ startTime = 0
     /\ timers = <<>>
     /\ pending = [kind |-> "mount", storage |-> saved, effects |-> << "load", "save" >>,
                   rendered |-> INITIAL_STATS]
     /\ now = 0
     /\ sessions = 0
     /\ event = [kind |-> "mount", saved |-> saved]
     /\ voice = NoVoice

\* The load effect: setStats(parsed) after the migration.  The new stats are
\* rendered only after the effects of this commit have run.
loadEffect ==
  /\ pending.kind = "mount"
  /\ Len(pending.effects) > 0
  /\ pending.effects[1] = "load"
  /\ stats' = Migrate(pending.storage)
  /\ pending' = [pending EXCEPT !.effects = Tail(pending.effects)]
  /\ UNCHANGED << view, loading, stageQuestions, currentQIndex, stageAnswers,
                  playingStageNumber, status, startTime, timers, now, sessions, event,
                  voice >>

\* The save effect: localStorage.setItem(key, JSON.stringify(stats)) with the
\* stats of the render the effect belongs to.  Every field of the stats is
\* defined, so the item parses back to the same value.
saveEffect ==
  /\ pending.kind = "mount"
  /\ Len(pending.effects) > 0
  /\ pending.effects[1] = "save"
  /\ pending' = [pending EXCEPT !.storage = pending.rendered,
                                !.effects = Tail(pending.effects)]
  /\ UNCHANGED << view, stats, loading, stageQuestions, currentQIndex, stageAnswers,
                  playingStageNumber, status, startTime, timers, now, sessions, event,
                  voice >>

\* The render the state update has scheduled is committed: its save effect is
\* to run, stats being a dependency that changed.
render ==
  /\ pending.kind = "mount"
  /\ pending.effects = << >>
  /\ pending.rendered # stats
  /\ pending' = [pending EXCEPT !.rendered = stats, !.effects = << "save" >>]
  /\ UNCHANGED << view, stats, loading, stageQuestions, currentQIndex, stageAnswers,
                  playingStageNumber, status, startTime, timers, now, sessions, event,
                  voice >>

MountNext ==
  \/ loadEffect
  \/ saveEffect
  \/ render

MountSpec == MountInit /\ [][MountNext]_vars

\* ------------------------------------------------- the level bar
\* getXpProgress(xp, level, LEVEL_Thresholds), as Dashboard calls it: the
\* denominator of the fraction, whether the result is NaN (0 / 0), and the
\* percentage rounded down (a division by zero of a non-zero numerator gives
\* an infinity, which Math.min / Math.max clamp).
getXpProgress(xp, level) ==
  LET currentLevelXp == LEVEL_Thresholds(level - 1)
      nextLevelXp == IF LEVEL_Thresholds(level) # 0 THEN LEVEL_Thresholds(level) ELSE 100000
      numerator == xp - currentLevelXp
      denominator == nextLevelXp - currentLevelXp
  IN  [denominator |-> denominator,
       nan |-> denominator = 0 /\ numerator = 0,
       percent |-> IF denominator = 0
                   THEN (IF numerator > 0 THEN 100 ELSE 0)
                   ELSE Min(100, Max(0, (numerator * 100) \div denominator))]

\* A learner who, from the fresh stats on, beats one boss question after the
\* other; the dashboard shows the level bar of the stats.
LevelNext ==
  /\ stats.totalQuestions < MaxBossRun
  /\ applyAnswer(BossQuestionOf([text |-> "ai", answer |-> 65],
                                FreshId(0, stats.totalQuestions + 1)), TRUE)

LevelSpec == Init /\ [][LevelNext]_vars

\* ------------------------------------------------- the stage summary view
\* StageSummary: the stars it draws for (questions, userAnswers).
StageSummaryStars(questions, userAnswers) ==
  LET correctCount == Cardinality({i \in 1..Len(userAnswers) : userAnswers[i].correct})
      total == Len(questions)
  IN  IF total = 0 THEN 1
      ELSE IF 10 * correctCount >= 9 * total THEN 3
      ELSE IF 10 * correctCount >= 6 * total THEN 2
      ELSE 1

\* ================================================================ properties
\* Two questions state the same fact when their operands and operator agree.
SameFact(q1, q2) ==
  q1.num1 = q2.num1 /\ q1.num2 = q2.num2 /\ q1.operator = q2.operator

\* The indexes of the records of `mistakes` that hold the fact of q.
RecordsFor(mistakes, q) ==
  {i \in 1..Len(mistakes) : SameFact(mistakes[i].question, q)}

\* A step that delivers one answer to handleAnswer; event' describes it.
AnswerStep == stats'.totalQuestions = stats.totalQuestions + 1

Answered == event # NoEvent

\* ------------------------------------------------------------------------ C1
\* C1: the mistake list never holds two records for the same fact (num1, num2,
\* operator): missing an already tracked fact updates its record instead of
\* adding another one.
C1_OneRecordPerFact ==
  \A i \in 1..Len(stats.mistakes) :
     RecordsFor(stats.mistakes, stats.mistakes[i].question) = {i}

\* A fact missed twice, under two question ids, sits in one record.
C1_Witness ==
  /\ Answered
  /\ ~event.correct
  /\ stats.totalQuestions = 2
  /\ stats.correctAnswers = 0
  /\ Len(stats.mistakes) = 1
  /\ stats.mistakes[1].reviewCount = 1
  /\ SameFact(stats.mistakes[1].question, event.question)
  /\ stats.mistakes[1].question.id # event.question.id

\* ------------------------------------------------------------------------ C2
\* C2: a tracked fact answered correctly moves its record one proficiency up
\* and keeps it while the new proficiency is below 5; the record leaves the
\* list exactly on the answer that takes the proficiency from 4 to 5, that is
\* on the fifth correct answer in a row, never on an earlier one and never on
\* a miss. Proficiency stays within 0..4 on every kept record.
C2_Step(before, after, ev) ==
  \A i \in 1..Len(before) :
     LET r    == before[i]
         hit  == SameFact(r.question, ev.question)
         kept == RecordsFor(after, r.question)
     IN  /\ r.proficiency \in 0..4
         /\ (hit /\ ev.correct /\ r.proficiency < 4) =>
               /\ kept # {}
               /\ \A j \in kept : after[j].proficiency = r.proficiency + 1
         /\ (hit /\ ev.correct /\ r.proficiency = 4) => kept = {}
         /\ (kept = {}) => (hit /\ ev.correct /\ r.proficiency = 4)

C2_MasteryOnFifth ==
  [][AnswerStep => C2_Step(stats.mistakes, stats'.mistakes, event')]_vars

\* One miss and then five correct answers in a row to the same fact, from the
\* fresh stats: the record is gone.
C2_Witness ==
  /\ Answered
  /\ event.correct
  /\ stats.totalQuestions = 6
  /\ stats.correctAnswers = 5
  /\ stats.currentStreak = 5
  /\ stats.mistakes = <<>>

\* ------------------------------------------------------------------------ C3
\* C3: a miss on a tracked fact keeps the record in its place, sets its
\* proficiency to 0, its next review to one minute after the answer, adds one
\* to its review count and leaves its question untouched; the list keeps its
\* length.
C3_Step(before, after, ev, t) ==
  \A i \in RecordsFor(before, ev.question) :
     ~ev.correct =>
        /\ Len(after) = Len(before)
        /\ after[i].proficiency = 0
        /\ after[i].nextReviewTime = t + 60000
        /\ after[i].reviewCount = before[i].reviewCount + 1
        /\ after[i].question = before[i].question

C3_WrongResets ==
  [][AnswerStep => C3_Step(stats.mistakes, stats'.mistakes, event', now)]_vars

\* A record that had climbed to proficiency 4 is missed: miss, four correct
\* answers, miss, from the fresh stats.
C3_Witness ==
  /\ Answered
  /\ ~event.correct
  /\ stats.totalQuestions = 6
  /\ stats.correctAnswers = 4
  /\ stats.maxStreak = 4
  /\ \E i \in RecordsFor(stats.mistakes, event.question) :
        /\ stats.mistakes[i].reviewCount = 5
        /\ stats.mistakes[i].proficiency = 0
        /\ stats.mistakes[i].question.id # event.question.id

\* ------------------------------------------------------------------------ C4
\* C4: a correct answer that leaves a record at proficiency 1, 2, 3 or 4
\* schedules its next review 5 minutes, 30 minutes, 4 hours or 24 hours after
\* the answer, an interval longer than the one the record was waiting on.
C4_Ladder == << 300000, 1800000, 14400000, 86400000 >>

C4_Step(before, after, ev, t) ==
  \A i \in RecordsFor(before, ev.question) :
     (ev.correct /\ before[i].proficiency + 1 \in 1..4) =>
        \A j \in RecordsFor(after, ev.question) :
           /\ after[j].proficiency = before[i].proficiency + 1
           /\ after[j].nextReviewTime = t + C4_Ladder[after[j].proficiency]
           /\ after[j].nextReviewTime - t
                 > before[i].nextReviewTime - before[i].timestamp

C4_ReviewLadder ==
  [][AnswerStep => C4_Step(stats.mistakes, stats'.mistakes, event', now)]_vars

\* The top rung: a record just raised to proficiency 4, due in 24 hours.
C4_Witness ==
  /\ Answered
  /\ event.correct
  /\ \E i \in RecordsFor(stats.mistakes, event.question) :
        /\ stats.mistakes[i].proficiency = 4
        /\ stats.mistakes[i].nextReviewTime = now + 24 * 60 * 60 * 1000

\* ------------------------------------------------------------------------ C5
\* C5: a record moves towards mastery only on reviews that are due: whenever
\* an answer raises the proficiency of a record, or masters it, the record's
\* next review time had been reached when the answer was given.
C5_Step(before, after, t) ==
  \A i \in 1..Len(before) :
     LET kept == RecordsFor(after, before[i].question)
     IN  (\/ kept = {}
          \/ \E j \in kept : after[j].proficiency > before[i].proficiency)
         => before[i].nextReviewTime <= t

C5_OnlyDueReviewsCount ==
  [][AnswerStep => C5_Step(stats.mistakes, stats'.mistakes, now)]_vars

\* ------------------------------------------------------------------------ C6
\* C6: the correct answers never outnumber the answers, and the current streak
\* never exceeds the longest streak.
C6_CountersOrdered ==
  /\ stats.correctAnswers <= stats.totalQuestions
  /\ stats.currentStreak <= stats.maxStreak

\* After a long streak was broken and a new one began: both inequalities strict.
C6_Witness ==
  /\ Answered
  /\ event.correct
  /\ 0 < stats.currentStreak
  /\ stats.currentStreak < stats.maxStreak
  /\ stats.correctAnswers < stats.totalQuestions

\* ------------------------------------------------------------------------ C7
\* C7: except for the data reset, no step lowers the xp, the level, the
\* current stage or the stars recorded for any stage.
C7_Monotone(before, after) ==
  /\ after.xp >= before.xp
  /\ after.level >= before.level
  /\ after.currentStage >= before.currentStage
  /\ \A n \in DOMAIN before.stageStars :
        StarsOf(after.stageStars, n) >= before.stageStars[n]

C8_XpBelowThreshold ==
  /\ LEVEL_Thresholds(stats.level) # 0 => stats.xp < LEVEL_Thresholds(stats.level)
  /\ \A l \in stats.level..99 :
        FinalXpGain(TRUE, stats.currentStreak + 1, TRUE)
           < LEVEL_Thresholds(l + 1) - LEVEL_Thresholds(l)

\* Two thresholds crossed, the second by the largest reward there is.
C8_Witness ==
  /\ Answered
  /\ event.correct
  /\ event.question.isBoss
  /\ stats.currentStreak > 10
  /\ stats.level = 3
  /\ stats.xp - 70 < LEVEL_Thresholds(2)

\* ------------------------------------------------------------------------ C9
\* C9: an answer adds to the xp exactly 1 when it is wrong and
\* 10 + min(s, 10) when it is correct, s being the streak that counts this
\* answer, plus 50 when the question answered correctly is a boss question.
C9_Gain(ev, s) ==
  IF ~ev.correct THEN 1
  ELSE 10 + (IF s < 10 THEN s ELSE 10) + (IF ev.question.isBoss THEN 50 ELSE 0)

C9_XpGain ==
  [][AnswerStep => stats'.xp - stats.xp = C9_Gain(event', stats'.currentStreak)]_vars

\* A boss beaten on a streak longer than 10: the cap and the bonus both apply.
C9_Witness ==
  /\ Answered
  /\ event.correct
  /\ event.question.isBoss
  /\ stats.currentStreak = 12
  /\ stats.bossesDefeated = 1

\* ----------------------------------------------------------------------- C10
\* C10: an answer adds to the points 1 when it is correct on an ordinary
\* question, 5 when it is correct on a boss question and nothing when it is
\* wrong; bossesDefeated grows, by one, exactly on a correct boss answer.
C10_Step(before, after, ev) ==
  LET beaten == ev.correct /\ ev.question.isBoss
  IN  /\ after.points - before.points =
           (IF ~ev.correct THEN 0 ELSE IF ev.question.isBoss THEN 5 ELSE 1)
      /\ after.bossesDefeated - before.bossesDefeated = (IF beaten THEN 1 ELSE 0)

C10_PointsAndBosses ==
  [][AnswerStep => C10_Step(stats, stats', event')]_vars

\* All three cases behind: a miss, a correct ordinary answer, a boss beaten.
C10_Witness ==
  /\ Answered
  /\ event.correct
  /\ event.question.isBoss
  /\ stats.totalQuestions = 3
  /\ stats.points = 6
  /\ stats.bossesDefeated = 1

\* ----------------------------------------------------------------------- C11
\* C11: after every answer event the badge list is the previous list followed
\* by exactly the catalog badges, in catalog order, whose condition holds on
\* the new stats and that the previous list did not hold; so no badge is ever
\* removed, none appears twice, and evaluating the catalog again on the new
\* stats earns nothing.
C11_Earned(before, after) ==
  LET earned == SubSeq(after.badges, Len(before.badges) + 1, Len(after.badges))
      Place(b) == CHOOSE k \in 1..Len(BADGES) : BADGES[k] = b
  IN  /\ Len(after.badges) >= Len(before.badges)
      /\ SubSeq(after.badges, 1, Len(before.badges)) = before.badges
      /\ \A k \in 1..Len(BADGES) :
            (\E i \in 1..Len(earned) : earned[i] = BADGES[k])
               <=> /\ BadgeCondition(BADGES[k], after)
                   /\ \A i \in 1..Len(before.badges) : before.badges[i] # BADGES[k]
      /\ \A i, j \in 1..Len(earned) : i < j => Place(earned[i]) < Place(earned[j])
      /\ \A i, j \in 1..Len(after.badges) : i # j => after.badges[i] # after.badges[j]
      /\ checkBadges(after) = << >>

C11_BadgesAppended ==
  [][AnswerStep => C11_Earned(stats, stats')]_vars

\* An answer that earns several badges at once on top of badges held before:
\* the tenth correct answer in a row (total_10, streak_10, op_+_10).
C11_Witness ==
  /\ Answered
  /\ event.correct
  /\ stats.correctAnswers = 10
  /\ stats.maxStreak = 10
  /\ Len(stats.badges) = 7
  /\ stats.badges[Len(stats.badges)] = Badge("operator", ADD, 10)
  /\ stats.badges[1] = Badge("level", "", 1)

\* A step in which finishStage runs: the session ends in the summary.
FinishStep == view = "game" /\ view' = "stage_summary"

\* ----------------------------------------------------------------------- C12
\* C12: a normal stage finished with c correct answers of n earns 3 stars when
\* c/n >= 0.9, 2 when 0.6 <= c/n < 0.9, 1 when 0.3 <= c/n < 0.6 and none
\* otherwise; what the stage then has on record is the larger of these stars
\* and the stars it had.
C12_Stars(c, n) ==
  IF 100 * c >= 90 * n THEN 3
  ELSE IF 100 * c >= 60 * n THEN 2
  ELSE IF 100 * c >= 30 * n THEN 1
  ELSE 0

C12_StarsByFraction ==
  [][(FinishStep /\ playingStageNumber # -1) =>
       LET c == Cardinality({i \in 1..Len(stageAnswers') : stageAnswers'[i].correct})
           earned == C12_Stars(c, Len(stageQuestions))
           had == StarsOf(stats.stageStars, playingStageNumber)
       IN  StarsOf(stats'.stageStars, playingStageNumber)
             = (IF earned > had THEN earned ELSE had)]_vars

\* 9 correct answers of 10 in a first attempt at a stage: 3 stars.
C12_Witness ==
  /\ view = "stage_summary"
  /\ playingStageNumber = 1
  /\ sessions = 1
  /\ Len(stageAnswers) = 10
  /\ Cardinality({i \in 1..Len(stageAnswers) : stageAnswers[i].correct}) = 9
  /\ StarsOf(stats.stageStars, 1) = 3

\* ----------------------------------------------------------------------- C13
\* C13: finishing a stage raises currentStage by exactly one when stars were
\* earned and the stage played is the current stage, and leaves it unchanged
\* in every other case.
C13_StageAdvance ==
  [][(FinishStep /\ playingStageNumber # -1) =>
       LET c == Cardinality({i \in 1..Len(stageAnswers') : stageAnswers'[i].correct})
           earned == C12_Stars(c, Len(stageQuestions))
       IN  stats'.currentStage =
             (IF earned > 0 /\ playingStageNumber = stats.currentStage
              THEN stats.currentStage + 1 ELSE stats.currentStage)]_vars

\* The first stage replayed with 3 stars after it was cleared: the current
\* stage stays 2.
C13_Witness ==
  /\ view = "stage_summary"
  /\ playingStageNumber = 1
  /\ sessions = 2
  /\ Len(stageAnswers) = 10
  /\ StarsOf(stats.stageStars, 1) = 3
  /\ stats.currentStage = 2

\* ----------------------------------------------------------------------- C14
\* C14: finishing a bootcamp (playingStageNumber = -1) leaves currentStage and
\* stageStars as they were, whatever the answers, and shows the summary with
\* one raw answer per question; no stars are ever recorded for stage -1.
C14_ReviewBypass ==
  [][(FinishStep /\ playingStageNumber = -1) =>
       /\ stats'.currentStage = stats.currentStage
       /\ stats'.stageStars = stats.stageStars
       /\ -1 \notin DOMAIN stats'.stageStars
       /\ Len(stageAnswers') = Len(stageQuestions)
       /\ \A i \in 1..Len(stageAnswers') : stageAnswers'[i].qId = stageQuestions[i].id]_vars

\* A bootcamp finished with every answer correct.
C14_Witness ==
  /\ view = "stage_summary"
  /\ playingStageNumber = -1
  /\ Len(stageAnswers) = 4
  /\ \A i \in 1..Len(stageAnswers) : stageAnswers[i].correct
  /\ stats.currentStage = 2

\* A state in which a call of generateQuestion has returned.
Generated == event.kind = "generateQuestion" /\ Len(stageQuestions) = 1

\* ----------------------------------------------------------------------- C15
\* C15: every question generateQuestion synthesizes from a config of
\* getStageConfig is well-formed: the operator is one of the config, the
\* answer is num1 operator num2, a subtraction has num1 >= num2 and a
\* non-negative answer, a division has a non-zero divisor and no remainder.
C15_Evaluate(q) ==
  CASE q.operator = ADD -> q.num1 + q.num2
    [] q.operator = SUBTRACT -> q.num1 - q.num2
    [] q.operator = MULTIPLY -> q.num1 * q.num2
    [] q.operator = DIVIDE -> IF q.num2 = 0 THEN -1 ELSE q.num1 \div q.num2

C15_WellFormedQuestions ==
  (Generated /\ event.config \in StageConfigs /\ ~stageQuestions[1].isReview) =>
     LET q == stageQuestions[1]
     IN  /\ \E i \in 1..Len(event.config.operators) : event.config.operators[i] = q.operator
         /\ q.answer = C15_Evaluate(q)
         /\ q.operator = SUBTRACT => (q.num1 >= q.num2 /\ q.answer >= 0)
         /\ q.operator = DIVIDE => (q.num2 # 0 /\ q.num2 * q.answer = q.num1)

\* A subtraction of the last stages drawn with the largest values of
\* Math.random().
C15_Witness ==
  /\ Generated
  /\ event.config = getStageConfig(100)
  /\ ~stageQuestions[1].isReview
  /\ stageQuestions[1].operator = SUBTRACT
  /\ event.d.a = RandDen - 1
  /\ event.d.b = RandDen - 1

\* ----------------------------------------------------------------------- C16
\* C16: a review question re-issues the fact of a record that is due and has
\* fewer than three due records before it by nextReviewTime, with the same
\* operands, operator and answer, isReview set and an id of its own; when no
\* record is due the question is never a review question.
C16_ReviewQuestions ==
  Generated =>
     LET q == stageQuestions[1]
         m == event.mistakes
         Due(i) == m[i].nextReviewTime <= now
         Earlier(i) == {j \in 1..Len(m) :
                          Due(j) /\ m[j].nextReviewTime < m[i].nextReviewTime}
     IN  /\ q.isReview =>
              \E i \in 1..Len(m) :
                 /\ Due(i)
                 /\ Cardinality(Earlier(i)) < 3
                 /\ q.num1 = m[i].question.num1
                 /\ q.num2 = m[i].question.num2
                 /\ q.operator = m[i].question.operator
                 /\ q.answer = m[i].question.answer
         /\ q.isReview => \A i \in 1..Len(m) : q.id # m[i].question.id
         /\ (\A i \in 1..Len(m) : ~Due(i)) => ~q.isReview

\* The third of five due records is re-issued.
C16_Witness ==
  /\ Generated
  /\ stageQuestions[1].isReview
  /\ Cardinality({i \in 1..Len(event.mistakes) :
                    event.mistakes[i].nextReviewTime <= now}) >= 5
  /\ \E i \in 1..Len(event.mistakes) :
        /\ event.mistakes[i].question.num1 = stageQuestions[1].num1
        /\ event.mistakes[i].nextReviewTime = 30000

\* ----------------------------------------------------------------------- C17
\* C17: for every config, degenerate bounds included, the question returned
\* has num1, num2 and answer non-negative.
C17_SafeOperands ==
  Generated =>
     /\ stageQuestions[1].num1 >= 0
     /\ stageQuestions[1].num2 >= 0
     /\ stageQuestions[1].answer >= 0

\* ----------------------------------------------------------------------- C18
\* C18: within a session every answer event is for the first question of the
\* batch that has no answer yet, and adds its one entry to stageAnswers: the
\* questions are answered once each, in the order they were presented, also
\* when answers are submitted by voice.
C18_OneEventPerQuestion ==
  [][AnswerStep =>
       /\ Len(stageAnswers) < Len(stageQuestions)
       /\ event'.question.id = stageQuestions[Len(stageAnswers) + 1].id
       /\ Len(stageAnswers') = Len(stageAnswers) + 1
       /\ stageAnswers'[Len(stageAnswers')].qId = event'.question.id
       /\ \A i \in 1..Len(stageAnswers) : stageAnswers'[i] = stageAnswers[i]]_vars

\* ----------------------------------------------------------------------- C19
\* C19: whenever a start handler waits for generateBossQuestion, the app
\* eventually leaves the loading state with a boss question on screen.
C19_BossQuestionArrives ==
  (pending.kind # "none") ~>
     (/\ ~loading
      /\ Mounted(view, stageQuestions, currentQIndex)
      /\ stageQuestions[Len(stageQuestions)].isBoss)

\* C20: after the load effect has read a snapshot, every field of the stats
\* exists, and every field the snapshot lacked holds its default of
\* INITIAL_STATS.
C20_DefaultsFilled ==
  event.kind = "load" =>
     \A f \in DOMAIN INITIAL_STATS :
        /\ f \in DOMAIN stats
        /\ f \notin DOMAIN event.saved => stats[f] = INITIAL_STATS[f]

\* ----------------------------------------------------------------------- C21
\* C21: every question of the batch on screen, a boss question included, has
\* an expected answer that is a non-negative integer.
C21_AnswerNonNegative ==
  \A i \in 1..Len(stageQuestions) : stageQuestions[i].answer \in Nat

\* ----------------------------------------------------------------------- C22
\* C22: a call of handleAnswer for a render without a question at
\* currentQIndex raises an error to its caller and leaves stats,
\* stageAnswers, currentQIndex and view as they were.
C22_FailsLoudly ==
  [][(\E i \in 1..Len(timers) :
        /\ ~(timers[i].qIndex < Len(timers[i].questions))
        /\ timers' = RemoveAt(timers, i))
     => /\ event'.kind = "no question"
        /\ event'.raised
        /\ UNCHANGED << stats, stageAnswers, currentQIndex, view >>]_vars

\* ----------------------------------------------------------------------- C23
\* C23: a division question synthesized for a config of getStageConfig has a
\* divisor in 2..9 and a quotient of two digits, 10 <= answer <= 99.
C23_TwoDigitQuotient ==
  (Generated /\ event.config \in StageConfigs /\ ~stageQuestions[1].isReview
     /\ stageQuestions[1].operator = DIVIDE) =>
     /\ stageQuestions[1].num2 \in 2..9
     /\ stageQuestions[1].answer \in 10..99

\* ----------------------------------------------------------------------- C24
\* C24: a feedback timer that fires after the learner has left the session it
\* was set in (the view is no longer the game, or another batch is being
\* played) changes neither the stats nor stageAnswers nor currentQIndex and
\* does not switch the view.
C24_Stale(t) == view # "game" \/ stageQuestions # t.questions

C24_StaleTimerIgnored ==
  [][(\E i \in 1..Len(timers) :
        /\ timers' = RemoveAt(timers, i)
        /\ event' # NoEvent
        /\ C24_Stale(timers[i]))
     => UNCHANGED << stats, stageAnswers, currentQIndex, view >>]_vars

\* ----------------------------------------------------------------------- C25
\* C25: finishing the session of startBossChallenge (one boss question, not a
\* bootcamp) leaves currentStage and stageStars as they were, whether the
\* answer is correct or wrong; currentStage changes only at the end of a
\* batch of startStage played on the current stage, or by the data reset.
C25_Challenge == playingStageNumber # -1 /\ Len(stageQuestions) = 1

C25_ChallengeKeepsMap ==
  [][/\ (FinishStep /\ C25_Challenge) =>
           /\ stats'.currentStage = stats.currentStage
           /\ stats'.stageStars = stats.stageStars
     /\ stats'.currentStage # stats.currentStage =>
           \/ handleResetData
           \/ /\ FinishStep
              /\ Len(stageQuestions) = questionCount
              /\ playingStageNumber = stats.currentStage]_vars

\* ----------------------------------------------------------------------- C26
\* C26: the record handleAnswer finds for the answered question holds the same
\* problem: the same expected answer and, for a boss question, the same text.
C26_SameProblem(before, ev) ==
  LET mistakeIndex == MistakeIndex(before, ev.question)
  IN  mistakeIndex > 0 =>
         /\ before[mistakeIndex].question.answer = ev.question.answer
         /\ ev.question.isBoss =>
               /\ before[mistakeIndex].question.isBoss
               /\ before[mistakeIndex].question.bossText = ev.question.bossText

C26_RecordHoldsSameProblem ==
  [][AnswerStep => C26_SameProblem(stats.mistakes, event')]_vars

\* ----------------------------------------------------------------------- C27
\* C27: at every point of the mount the item in storage is the snapshot that
\* was found there or the stats derived from it, never the defaults written
\* over it.
C27_SavedProgressKept ==
  pending.kind = "mount" =>
     \/ pending.storage = event.saved
     \/ pending.storage = Migrate(event.saved)

\* ----------------------------------------------------------------------- C28
\* C28: until a started session reaches the stage summary a question is on
\* screen: while the view is the game, currentQIndex stays below
\* stageQuestions.length, so the learner can submit the next answer.
C28_QuestionOnScreen ==
  (view = "game" /\ ~loading) => currentQIndex < Len(stageQuestions)

\* ----------------------------------------------------------------------- C29
\* C29: for the xp and level of every reachable state, the level past the
\* last threshold included, getXpProgress divides by a non-zero denominator
\* and returns a number between 0 and 100.
C29_ProgressDefined ==
  LET progress == getXpProgress(stats.xp, stats.level)
  IN  /\ progress.denominator # 0
      /\ ~progress.nan
      /\ progress.percent \in 0..100

\* ----------------------------------------------------------------------- C30
\* C30: when a normal stage has been finished, the stars the summary view
\* draws for the batch and its answers are the stars finishStage computed for
\* the same answers.
C30_SummaryShowsEarnedStars ==
  (view = "stage_summary" /\ playingStageNumber # -1) =>
     StageSummaryStars(stageQuestions, stageAnswers)
        = Stars(CorrectCount(stageAnswers), Len(stageQuestions))

====
